---- MODULE Spec2Model ----
(***************************************************************************)
(* Model of src/bank.py: the account ledger (Conta), the in-memory         *)
(* repository (Banco) with its JSON snapshot, and the menu loop of main(). *)
(*                                                                         *)
(* Python floats are modelled as tagged values: a finite amount (an exact  *)
(* integer number of currency units), nan, +inf and -inf, with IEEE-754    *)
(* arithmetic and comparisons on them.  Rounding of finite values is not   *)
(* modelled.  A dict is modelled as the sequence of its values in          *)
(* insertion order.  A str used as a pin is the sequence of its characters.*)
(* The texts of the program (messages, transaction kinds) are written      *)
(* without their accents.                                                  *)
(***************************************************************************)
EXTENDS Integers, Sequences, FiniteSets, TLC

VARIABLES
    usuarios,        \* Banco.usuarios: the Usuario records, in insertion order
    contas,          \* Banco.contas: the Conta records, in insertion order
    proximo_numero,  \* Banco._proximo_numero
    arquivo,         \* content of the snapshot file, or SemArquivo
    DATA_FILE,       \* the BANK_DATA_FILE setting of the running process
    pc,              \* "rodando" inside the menu loop, "encerrado" after option 0
    sessao,          \* how many times the process has been started
    carregadas,      \* accounts the running process loaded from the snapshot at startup
    abertas,         \* successful criar_conta calls of the running process
    saques_sessao,   \* successful sacar calls of the running process, per account number
    ult              \* the last command of the menu loop and its outcome

vars == << usuarios, contas, proximo_numero, arquivo, DATA_FILE, pc, sessao,
           carregadas, abertas, saques_sessao, ult >>

----------------------------------------------------------------------------
(* Bounds of the model *)

MaxContas == 2
MaxLancamentos == 3
MaxSaldo == 2000
MaxSessoes == 2
MaxLancamentosCadastro == 1

----------------------------------------------------------------------------
(* Python float values *)

Fin(n) == [cls |-> "fin", n |-> n]
NaN == [cls |-> "nan", n |-> 0]
PInf == [cls |-> "inf", n |-> 1]
NInf == [cls |-> "inf", n |-> -1]

IsFinite(a) == a.cls = "fin"

\* position of a non-nan value on the extended real line: (rank, n)
Rank(a) == IF a.cls = "inf" THEN a.n ELSE 0

\* float.__lt__: false whenever an operand is nan
FLt(a, b) ==
    /\ a.cls # "nan"
    /\ b.cls # "nan"
    /\ \/ Rank(a) < Rank(b)
       \/ Rank(a) = 0 /\ Rank(b) = 0 /\ a.n < b.n

\* float.__eq__: false whenever an operand is nan
FEq(a, b) == a.cls # "nan" /\ b.cls # "nan" /\ a = b

FLe(a, b) == FLt(a, b) \/ FEq(a, b)
FGt(a, b) == FLt(b, a)
FGe(a, b) == FLe(b, a)

\* unary minus
FNeg(a) == IF a.cls = "nan" THEN NaN ELSE [cls |-> a.cls, n |-> -a.n]

\* float.__add__: nan is absorbing, inf + (-inf) is nan
FAdd(a, b) ==
    IF a.cls = "nan" \/ b.cls = "nan" THEN NaN
    ELSE IF a.cls = "inf" /\ b.cls = "inf" THEN (IF a.n = b.n THEN a ELSE NaN)
    ELSE IF a.cls = "inf" THEN a
    ELSE IF b.cls = "inf" THEN b
    ELSE Fin(a.n + b.n)

FSub(a, b) == FAdd(a, FNeg(b))

----------------------------------------------------------------------------
(* Module constants of bank.py *)

AGENCIA_PADRAO == "0001"
LIMITE_SAQUE == Fin(1000)
LIMITE_SAQUES_DIA == 3

SemErro == ""
ERRO_DEPOSITO_POSITIVO == "Valor de deposito deve ser positivo."
ERRO_SAQUE_POSITIVO == "Valor de saque deve ser positivo."
ERRO_SAQUE_MAXIMO == "Saque maximo por operacao: R$ 1000.00."
ERRO_LIMITE_SAQUES == "Limite de saques do dia atingido."
ERRO_SALDO_INSUFICIENTE == "Saldo insuficiente."
ERRO_TRANSF_POSITIVO == "Valor de transferencia deve ser positivo."
ERRO_TRANSF_SALDO == "Saldo insuficiente para transferencia."
ERRO_CPF_CADASTRADO == "CPF ja cadastrado."
ERRO_CPF_NAO_ENCONTRADO == "CPF nao encontrado. Cadastre o usuario antes."
ERRO_PIN == "PIN deve conter 4 digitos numericos."
ERRO_CONTA_PIN == "Conta/PIN invalidos."
ERRO_DESTINO == "Conta de destino nao encontrada."
ERRO_FLOAT == "could not convert string to float"

----------------------------------------------------------------------------
(* Dataclasses *)

Usuario(cpf, nome, data_nasc, endereco) ==
    [cpf |-> cpf, nome |-> nome, data_nasc |-> data_nasc, endereco |-> endereco]

Transacao(tipo, valor) == [tipo |-> tipo, valor |-> valor]

\* Conta(numero=..., cpf_titular=..., pin=...) with the defaults of the dataclass
Conta(numero, cpf_titular, pin) ==
    [numero |-> numero, agencia |-> AGENCIA_PADRAO, cpf_titular |-> cpf_titular,
     pin |-> pin, saldo |-> Fin(0), extrato |-> << >>, saques_hoje |-> 0]

----------------------------------------------------------------------------
(* Conta methods.  Each returns the exception message (SemErro when none  *)
(* is raised) and the account as the call leaves it.                      *)

\* depositar with < for <= in line 57
depositar_aceita_zero(c, valor) ==
    IF FLt(valor, Fin(0))
    THEN [erro |-> ERRO_DEPOSITO_POSITIVO, conta |-> c]
    ELSE [erro |-> SemErro,
          conta |-> [c EXCEPT !.saldo = FAdd(c.saldo, valor),
                              !.extrato = Append(c.extrato, Transacao("DEPOSITO", valor))]]

depositar(c, valor) ==
    IF FLe(valor, Fin(0))
    THEN [erro |-> ERRO_DEPOSITO_POSITIVO, conta |-> c]
    ELSE [erro |-> SemErro,
          conta |-> [c EXCEPT !.saldo = FAdd(c.saldo, valor),
                              !.extrato = Append(c.extrato, Transacao("DEPOSITO", valor))]]

\* sacar_erro with the checks of lines 65 and 67 in the other order
sacar_erro_limite_antes(c, valor) ==
    IF FLe(valor, Fin(0)) THEN ERRO_SAQUE_POSITIVO
    ELSE IF c.saques_hoje >= LIMITE_SAQUES_DIA THEN ERRO_LIMITE_SAQUES
    ELSE IF FGt(valor, LIMITE_SAQUE) THEN ERRO_SAQUE_MAXIMO
    ELSE IF FGt(valor, c.saldo) THEN ERRO_SALDO_INSUFICIENTE
    ELSE SemErro

\* sacar_erro with > for >= in line 67
sacar_erro_um_a_mais(c, valor) ==
    IF FLe(valor, Fin(0)) THEN ERRO_SAQUE_POSITIVO
    ELSE IF FGt(valor, LIMITE_SAQUE) THEN ERRO_SAQUE_MAXIMO
    ELSE IF c.saques_hoje > LIMITE_SAQUES_DIA THEN ERRO_LIMITE_SAQUES
    ELSE IF FGt(valor, c.saldo) THEN ERRO_SALDO_INSUFICIENTE
    ELSE SemErro

\* the message of the first check of sacar that raises, SemErro when none does
sacar_erro(c, valor) ==
    IF FLe(valor, Fin(0)) THEN ERRO_SAQUE_POSITIVO
    ELSE IF FGt(valor, LIMITE_SAQUE) THEN ERRO_SAQUE_MAXIMO
    ELSE IF c.saques_hoje >= LIMITE_SAQUES_DIA THEN ERRO_LIMITE_SAQUES
    ELSE IF FGt(valor, c.saldo) THEN ERRO_SALDO_INSUFICIENTE
    ELSE SemErro

\* sacar with the increment of line 72 moved before the funds check of line 69
sacar_conta_tentativa(c, valor) ==
    IF sacar_erro(c, valor) = ERRO_SALDO_INSUFICIENTE
    THEN [erro |-> ERRO_SALDO_INSUFICIENTE,
          conta |-> [c EXCEPT !.saques_hoje = c.saques_hoje + 1]]
    ELSE IF sacar_erro(c, valor) # SemErro
    THEN [erro |-> sacar_erro(c, valor), conta |-> c]
    ELSE [erro |-> SemErro,
          conta |-> [c EXCEPT !.saldo = FSub(c.saldo, valor),
                              !.saques_hoje = c.saques_hoje + 1,
                              !.extrato = Append(c.extrato, Transacao("SAQUE", FNeg(valor)))]]

sacar(c, valor) ==
    IF sacar_erro(c, valor) # SemErro
    THEN [erro |-> sacar_erro(c, valor), conta |-> c]
    ELSE [erro |-> SemErro,
          conta |-> [c EXCEPT !.saldo = FSub(c.saldo, valor),
                              !.saques_hoje = c.saques_hoje + 1,
                              !.extrato = Append(c.extrato, Transacao("SAQUE", FNeg(valor)))]]

\* dict lookups on Banco.contas (a sequence of Conta in insertion order)
Numeros(cs) == {cs[i].numero : i \in 1..Len(cs)}
Get(cs, numero) == cs[CHOOSE i \in 1..Len(cs) : cs[i].numero = numero]
\* Put on a heap whose accounts all share one extrato list
Put_extrato_comum(cs, numero, c) ==
    [i \in 1..Len(cs) |-> IF cs[i].numero = numero THEN c
                          ELSE [cs[i] EXCEPT !.extrato = c.extrato]]

\* the heap after assigning to fields of the object stored under `numero`
Put(cs, numero, c) ==
    IF numero \in Numeros(cs)
    THEN [cs EXCEPT ![CHOOSE i \in 1..Len(cs) : cs[i].numero = numero] = c]
    ELSE cs

\* transferir_erro with the checks of lines 65 and 67 of sacar added
transferir_erro_com_limites(origem, valor) ==
    IF FLe(valor, Fin(0)) THEN ERRO_TRANSF_POSITIVO
    ELSE IF FGt(valor, LIMITE_SAQUE) THEN ERRO_SAQUE_MAXIMO
    ELSE IF origem.saques_hoje >= LIMITE_SAQUES_DIA THEN ERRO_LIMITE_SAQUES
    ELSE IF FGt(valor, origem.saldo) THEN ERRO_TRANSF_SALDO
    ELSE SemErro

\* the message of the first check of transferir that raises
transferir_erro(origem, valor) ==
    IF FLe(valor, Fin(0)) THEN ERRO_TRANSF_POSITIVO
    ELSE IF FGt(valor, origem.saldo) THEN ERRO_TRANSF_SALDO
    ELSE SemErro

\* transferir with line 83 left out: no TRANSFERENCIA-RECEB entry is appended
transferir_sem_receb(cs, o, d, valor) ==
    IF transferir_erro(Get(cs, o), valor) # SemErro
    THEN [erro |-> transferir_erro(Get(cs, o), valor), contas |-> cs]
    ELSE LET s1 == Put(cs, o, [Get(cs, o) EXCEPT !.saldo = FSub(@, valor)])
             s2 == Put(s1, d, [Get(s1, d) EXCEPT !.saldo = FAdd(@, valor)])
             s3 == Put(s2, o, [Get(s2, o) EXCEPT
                                 !.extrato = Append(@, Transacao("TRANSFERENCIA-ENVIO", FNeg(valor)))])
         IN [erro |-> SemErro, contas |-> s3]

\* transferir with the debit of line 80 moved before the funds check of line 78
transferir_debita_antes(cs, o, d, valor) ==
    IF FLe(valor, Fin(0))
    THEN [erro |-> ERRO_TRANSF_POSITIVO, contas |-> cs]
    ELSE LET s1 == Put(cs, o, [Get(cs, o) EXCEPT !.saldo = FSub(@, valor)])
             s2 == Put(s1, d, [Get(s1, d) EXCEPT !.saldo = FAdd(@, valor)])
             s3 == Put(s2, o, [Get(s2, o) EXCEPT
                                 !.extrato = Append(@, Transacao("TRANSFERENCIA-ENVIO", FNeg(valor)))])
             s4 == Put(s3, d, [Get(s3, d) EXCEPT
                                 !.extrato = Append(@, Transacao("TRANSFERENCIA-RECEB", valor))])
         IN IF FLt(Get(s1, o).saldo, Fin(0))
            THEN [erro |-> ERRO_TRANSF_SALDO, contas |-> s1]
            ELSE [erro |-> SemErro, contas |-> s4]

\* origem.transferir(destino, valor), origem and destino being the objects stored
\* under numbers o and d (one and the same object when o = d): the four
\* statements run one after the other on the heap cs.
transferir(cs, o, d, valor) ==
    IF transferir_erro(Get(cs, o), valor) # SemErro
    THEN [erro |-> transferir_erro(Get(cs, o), valor), contas |-> cs]
    ELSE LET s1 == Put(cs, o, [Get(cs, o) EXCEPT !.saldo = FSub(@, valor)])
             s2 == Put(s1, d, [Get(s1, d) EXCEPT !.saldo = FAdd(@, valor)])
             s3 == Put(s2, o, [Get(s2, o) EXCEPT
                                 !.extrato = Append(@, Transacao("TRANSFERENCIA-ENVIO", FNeg(valor)))])
             s4 == Put(s3, d, [Get(s3, d) EXCEPT
                                 !.extrato = Append(@, Transacao("TRANSFERENCIA-RECEB", valor))])
         IN [erro |-> SemErro, contas |-> s4]

----------------------------------------------------------------------------
(* Banco: users and accounts *)

\* characters for which str.isdigit() is true: the ASCII digits and the other
\* Unicode digits, here U+0663 (ARABIC-INDIC DIGIT THREE) and U+00B2 (SUPERSCRIPT TWO)
DigitosAscii == {"0", "1", "2", "3", "4", "5", "6", "7", "8", "9"}
DigitosNaoAscii == {"U+0663", "U+00B2"}

\* pin.isdigit(): a non-empty string all of whose characters are digits
isdigit(pin) == Len(pin) > 0 /\ \A i \in 1..Len(pin) : pin[i] \in DigitosAscii \cup DigitosNaoAscii

\* the test of line 136
pin_valido(pin) == isdigit(pin) /\ Len(pin) = 4

Cpfs(us) == {us[i].cpf : i \in 1..Len(us)}

\* criar_usuario without the check of line 127: line 130 assigns under a key
\* the dict already has
criar_usuario_sobrescreve(us, cpf, nome, data_nasc, endereco) ==
    IF cpf \in Cpfs(us)
    THEN [erro |-> SemErro,
          usuarios |-> [i \in 1..Len(us) |->
                          IF us[i].cpf = cpf THEN Usuario(cpf, nome, data_nasc, endereco)
                          ELSE us[i]]]
    ELSE [erro |-> SemErro, usuarios |-> Append(us, Usuario(cpf, nome, data_nasc, endereco))]

criar_usuario(us, cpf, nome, data_nasc, endereco) ==
    IF cpf \in Cpfs(us)
    THEN [erro |-> ERRO_CPF_CADASTRADO, usuarios |-> us]
    ELSE [erro |-> SemErro, usuarios |-> Append(us, Usuario(cpf, nome, data_nasc, endereco))]

\* criar_conta with the allocation of lines 138-139 moved before the pin check
criar_conta_consome(us, cs, prox, cpf_titular, pin) ==
    IF cpf_titular \notin Cpfs(us)
    THEN [erro |-> ERRO_CPF_NAO_ENCONTRADO, contas |-> cs, proximo_numero |-> prox, numero |-> 0]
    ELSE IF ~pin_valido(pin)
    THEN [erro |-> ERRO_PIN, contas |-> cs, proximo_numero |-> prox + 1, numero |-> 0]
    ELSE [erro |-> SemErro,
          contas |-> Append(cs, Conta(prox, cpf_titular, pin)),
          proximo_numero |-> prox + 1,
          numero |-> prox]

criar_conta(us, cs, prox, cpf_titular, pin) ==
    IF cpf_titular \notin Cpfs(us)
    THEN [erro |-> ERRO_CPF_NAO_ENCONTRADO, contas |-> cs, proximo_numero |-> prox, numero |-> 0]
    ELSE IF ~pin_valido(pin)
    THEN [erro |-> ERRO_PIN, contas |-> cs, proximo_numero |-> prox, numero |-> 0]
    ELSE [erro |-> SemErro,
          contas |-> IF prox \in Numeros(cs)
                     THEN Put(cs, prox, Conta(prox, cpf_titular, pin))
                     ELSE Append(cs, Conta(prox, cpf_titular, pin)),
          proximo_numero |-> prox + 1,
          numero |-> prox]

\* autenticar_conta with a message of its own for a number that is not a key
autenticar_conta_revela(cs, numero, pin) ==
    IF numero \notin Numeros(cs) THEN ERRO_DESTINO
    ELSE IF Get(cs, numero).pin # pin THEN ERRO_CONTA_PIN
    ELSE SemErro

\* autenticar_conta raises unless the number is a key and the pins are equal
autenticar_conta(cs, numero, pin) ==
    IF numero \notin Numeros(cs) \/ Get(cs, numero).pin # pin
    THEN ERRO_CONTA_PIN
    ELSE SemErro

----------------------------------------------------------------------------
(* Banco: the JSON snapshot *)

SemArquivo == [existe |-> FALSE]

\* json.dump of a float: repr of a finite value, NaN, Infinity or -Infinity
json_float(a) ==
    IF a.cls = "nan" THEN [tok |-> "NaN", n |-> 0]
    ELSE IF a.cls = "inf" THEN [tok |-> IF a.n > 0 THEN "Infinity" ELSE "-Infinity", n |-> 0]
    ELSE [tok |-> "decimal", n |-> a.n]

\* json.load of a number token written by json_float
float_json(j) ==
    IF j.tok = "NaN" THEN NaN
    ELSE IF j.tok = "Infinity" THEN PInf
    ELSE IF j.tok = "-Infinity" THEN NInf
    ELSE Fin(j.n)

\* [asdict(t) for t in c.extrato]
json_extrato(extrato) ==
    [i \in 1..Len(extrato) |-> [tipo |-> extrato[i].tipo, valor |-> json_float(extrato[i].valor)]]

\* json_conta without the session counter: saques_hoje written as 0
json_conta_sem_contador(c) ==
    [numero |-> c.numero, agencia |-> c.agencia, cpf_titular |-> c.cpf_titular,
     pin |-> c.pin, saldo |-> json_float(c.saldo), saques_hoje |-> 0,
     extrato |-> json_extrato(c.extrato)]

\* the object salvar writes for one account: every field of asdict(c)
json_conta(c) ==
    [numero |-> c.numero, agencia |-> c.agencia, cpf_titular |-> c.cpf_titular,
     pin |-> c.pin, saldo |-> json_float(c.saldo), saques_hoje |-> c.saques_hoje,
     extrato |-> json_extrato(c.extrato)]

\* the document salvar(path) writes
salvar(us, cs) ==
    [existe |-> TRUE,
     usuarios |-> [i \in 1..Len(us) |-> us[i]],
     contas |-> [i \in 1..Len(cs) |-> json_conta(cs[i])]]

\* conta_json with line 105 finding no "extrato" key: the default [] is loaded
conta_json_sem_extrato(j) ==
    [numero |-> j.numero, agencia |-> j.agencia, cpf_titular |-> j.cpf_titular,
     pin |-> j.pin, saldo |-> float_json(j.saldo), saques_hoje |-> j.saques_hoje,
     extrato |-> << >>]

\* conta_json starting every loaded account with saques_hoje = 0
conta_json_zera_contador(j) ==
    [numero |-> j.numero, agencia |-> j.agencia, cpf_titular |-> j.cpf_titular,
     pin |-> j.pin, saldo |-> float_json(j.saldo), saques_hoje |-> 0,
     extrato |-> [i \in 1..Len(j.extrato) |->
                    Transacao(j.extrato[i].tipo, float_json(j.extrato[i].valor))]]

\* Conta(**cpy) of line 106, extrato rebuilt by line 105
conta_json(j) ==
    [numero |-> j.numero, agencia |-> j.agencia, cpf_titular |-> j.cpf_titular,
     pin |-> j.pin, saldo |-> float_json(j.saldo), saques_hoje |-> j.saques_hoje,
     extrato |-> [i \in 1..Len(j.extrato) |->
                    Transacao(j.extrato[i].tipo, float_json(j.extrato[i].valor))]]

\* max(keys, default=0)
RECURSIVE MaxNumero(_)
MaxNumero(cs) ==
    IF Len(cs) = 0 THEN 0
    ELSE LET m == MaxNumero(Tail(cs)) IN IF Head(cs).numero > m THEN Head(cs).numero ELSE m

\* self.contas after the loop of lines 102-106: a later entry of the list
\* replaces an earlier one with the same numero
RECURSIVE carregar_contas(_, _)
carregar_contas(lista, cs) ==
    IF Len(lista) = 0 THEN cs
    ELSE LET c == conta_json(Head(lista))
         IN carregar_contas(Tail(lista),
                            IF c.numero \in Numeros(cs) THEN Put(cs, c.numero, c)
                            ELSE Append(cs, c))

\* self.usuarios after the dict comprehension of line 101: a later entry of the
\* list replaces an earlier one with the same cpf
RECURSIVE carregar_usuarios(_, _)
carregar_usuarios(lista, us) ==
    IF Len(lista) = 0 THEN us
    ELSE LET u == Usuario(Head(lista).cpf, Head(lista).nome, Head(lista).data_nasc,
                          Head(lista).endereco)
         IN carregar_usuarios(Tail(lista),
                              IF u.cpf \in Cpfs(us)
                              THEN [i \in 1..Len(us) |-> IF us[i].cpf = u.cpf THEN u ELSE us[i]]
                              ELSE Append(us, u))

\* carregar without line 107: _proximo_numero stays as it was
carregar_sem_proximo(us, cs, prox, path, file) ==
    IF path = "" \/ ~file.existe
    THEN [usuarios |-> us, contas |-> cs, proximo_numero |-> prox]
    ELSE [usuarios |-> carregar_usuarios(file.usuarios, << >>),
          contas |-> carregar_contas(file.contas, << >>),
          proximo_numero |-> prox]

\* Banco.carregar(path) on a directory (us, cs, prox); file is the content at path
carregar(us, cs, prox, path, file) ==
    IF path = "" \/ ~file.existe
    THEN [usuarios |-> us, contas |-> cs, proximo_numero |-> prox]
    ELSE LET novas == carregar_contas(file.contas, << >>)
         IN [usuarios |-> carregar_usuarios(file.usuarios, << >>),
             contas |-> novas,
             proximo_numero |-> MaxNumero(novas) + 1]

----------------------------------------------------------------------------
(* What the user types at the prompts of main() *)

CPFS == {"111", "222"}
NOMES == {"Ana", "Bia"}
DATA_NASC == "01/01/1990"
ENDERECO == "Rua A, 1 - Centro - Recife/PE"
PINS == { <<"1", "2", "3", "4">>, <<"1", "2", "3", "U+0663">>,
          <<"1", "2", "3">>, <<"1", "2", "a", "4">> }
PIN_1234 == <<"1", "2", "3", "4">>
PINS_CONTA == { PIN_1234, <<"1", "2", "3">> }
NUMEROS == 1..(MaxContas + 1)
\* a text float() rejects
TextoInvalido == [cls |-> "texto", n |-> 0]
\* the amounts typed: "-500", "0", "500", "1500", "nan", "inf"
ENTRADAS == {Fin(-500), Fin(0), Fin(500), Fin(1500), NaN, PInf}
ARQUIVOS == {"", "bank_data.json"}

\* what a command prints of the accounts: statement entries and balances
Saida(extrato, saldos) == [extrato |-> extrato, saldos |-> saldos]
Nada == Saida(<< >>, << >>)

\* the record of the last command: its inputs, the message of the ValueError
\* it printed (SemErro when it completed), the account number it returned and
\* what it printed of the accounts
Ult(op, cpf, pin, numero, destino, valor, erro, ret, saida) ==
    [op |-> op, cpf |-> cpf, pin |-> pin, numero |-> numero, destino |-> destino,
     valor |-> valor, erro |-> erro, ret |-> ret, saida |-> saida]

ZeroSaques == [n \in NUMEROS |-> 0]

----------------------------------------------------------------------------
(* The process: main() *)

Init ==
    /\ usuarios = << >>
    /\ contas = << >>
    /\ proximo_numero = 1
    /\ arquivo = SemArquivo
    /\ DATA_FILE \in ARQUIVOS
    /\ pc = "rodando"
    /\ sessao = 1
    /\ carregadas = 0
    /\ abertas = 0
    /\ saques_sessao = ZeroSaques
    /\ ult = Ult("main", "", << >>, 0, 0, Fin(0), SemErro, 0, Nada)

\* Each command reads its inputs at the prompts in the order of the code: an
\* input is drawn only when the command reaches its prompt.  The parameters are
\* the sets the answers are drawn from.

\* option 1
MenuCadastrarUsuario(cpfs, nomes) ==
    /\ pc = "rodando"
    /\ \E cpf \in cpfs, nome \in nomes :
          LET r == criar_usuario(usuarios, cpf, nome, DATA_NASC, ENDERECO) IN
          /\ usuarios' = r.usuarios
          /\ ult' = Ult("criar_usuario", cpf, << >>, 0, 0, Fin(0), r.erro, 0, Nada)
    /\ UNCHANGED << carregadas, contas, proximo_numero, arquivo, DATA_FILE, pc, sessao, abertas,
                    saques_sessao >>

\* option 2
MenuCriarConta(cpfs, pins) ==
    /\ pc = "rodando"
    /\ \E cpf \in cpfs, pin \in pins :
          LET r == criar_conta(usuarios, contas, proximo_numero, cpf, pin) IN
          /\ contas' = r.contas
          /\ proximo_numero' = r.proximo_numero
          /\ abertas' = IF r.erro = SemErro THEN abertas + 1 ELSE abertas
          /\ ult' = Ult("criar_conta", cpf, pin, 0, 0, Fin(0), r.erro, r.numero, Nada)
    /\ UNCHANGED << carregadas, usuarios, arquivo, DATA_FILE, pc, sessao, saques_sessao >>

\* option 3 with line 192 left out: the account is taken from banco.contas
MenuDepositar_sem_pin(numeros, pins, valores) ==
    /\ pc = "rodando"
    /\ \E numero \in numeros, pin \in pins :
          IF numero \notin Numeros(contas)
          THEN /\ ult' = Ult("depositar", "", pin, numero, 0, Fin(0), ERRO_CONTA_PIN, 0, Nada)
               /\ UNCHANGED contas
          ELSE \E valor \in valores :
                 IF valor = TextoInvalido
                 THEN /\ ult' = Ult("depositar", "", pin, numero, 0, valor, ERRO_FLOAT, 0, Nada)
                      /\ UNCHANGED contas
                 ELSE LET r == depositar(Get(contas, numero), valor) IN
                      /\ contas' = Put(contas, numero, r.conta)
                      /\ ult' = Ult("depositar", "", pin, numero, 0, valor, r.erro, 0,
                                    IF r.erro = SemErro THEN Saida(<< >>, << r.conta.saldo >>)
                                    ELSE Nada)
    /\ UNCHANGED << carregadas, usuarios, proximo_numero, arquivo, DATA_FILE, pc, sessao, abertas,
                    saques_sessao >>

\* option 3
MenuDepositar(numeros, pins, valores) ==
    /\ pc = "rodando"
    /\ \E numero \in numeros, pin \in pins :
          IF autenticar_conta(contas, numero, pin) # SemErro
          THEN /\ ult' = Ult("depositar", "", pin, numero, 0, Fin(0),
                           autenticar_conta(contas, numero, pin), 0, Nada)
               /\ UNCHANGED contas
          ELSE \E valor \in valores :
                 IF valor = TextoInvalido
                 THEN /\ ult' = Ult("depositar", "", pin, numero, 0, valor, ERRO_FLOAT, 0, Nada)
                      /\ UNCHANGED contas
                 ELSE LET r == depositar(Get(contas, numero), valor) IN
                      /\ contas' = Put(contas, numero, r.conta)
                      /\ ult' = Ult("depositar", "", pin, numero, 0, valor, r.erro, 0,
                                    IF r.erro = SemErro THEN Saida(<< >>, << r.conta.saldo >>)
                                    ELSE Nada)
    /\ UNCHANGED << carregadas, usuarios, proximo_numero, arquivo, DATA_FILE, pc, sessao, abertas,
                    saques_sessao >>

\* option 4
MenuSacar(numeros, pins, valores) ==
    /\ pc = "rodando"
    /\ \E numero \in numeros, pin \in pins :
          IF autenticar_conta(contas, numero, pin) # SemErro
          THEN /\ ult' = Ult("sacar", "", pin, numero, 0, Fin(0),
                           autenticar_conta(contas, numero, pin), 0, Nada)
               /\ UNCHANGED << contas, saques_sessao >>
          ELSE \E valor \in valores :
                 IF valor = TextoInvalido
                 THEN /\ ult' = Ult("sacar", "", pin, numero, 0, valor, ERRO_FLOAT, 0, Nada)
                      /\ UNCHANGED << contas, saques_sessao >>
                 ELSE LET r == sacar(Get(contas, numero), valor) IN
                      /\ contas' = Put(contas, numero, r.conta)
                      /\ saques_sessao' = IF r.erro = SemErro
                                          THEN [saques_sessao EXCEPT ![numero] = @ + 1]
                                          ELSE saques_sessao
                      /\ ult' = Ult("sacar", "", pin, numero, 0, valor, r.erro, 0,
                                    IF r.erro = SemErro THEN Saida(<< >>, << r.conta.saldo >>)
                                    ELSE Nada)
    /\ UNCHANGED << carregadas, usuarios, proximo_numero, arquivo, DATA_FILE, pc, sessao, abertas >>

\* option 5
MenuTransferir(origens, pins, destinos, valores) ==
    /\ pc = "rodando"
    /\ \E origem \in origens, pin \in pins :
          IF autenticar_conta(contas, origem, pin) # SemErro
          THEN /\ ult' = Ult("transferir", "", pin, origem, 0, Fin(0),
                           autenticar_conta(contas, origem, pin), 0, Nada)
               /\ UNCHANGED contas
          ELSE \E destino \in destinos :
                 IF destino \notin Numeros(contas)
                 THEN /\ ult' = Ult("transferir", "", pin, origem, destino, Fin(0),
                                    ERRO_DESTINO, 0, Nada)
                      /\ UNCHANGED contas
                 ELSE \E valor \in valores :
                        IF valor = TextoInvalido
                        THEN /\ ult' = Ult("transferir", "", pin, origem, destino, valor,
                                           ERRO_FLOAT, 0, Nada)
                             /\ UNCHANGED contas
                        ELSE LET r == transferir(contas, origem, destino, valor) IN
                             /\ contas' = r.contas
                             /\ ult' = Ult("transferir", "", pin, origem, destino, valor,
                                           r.erro, 0,
                                           IF r.erro = SemErro
                                           THEN Saida(<< >>, << Get(r.contas, origem).saldo,
                                                                Get(r.contas, destino).saldo >>)
                                           ELSE Nada)
    /\ UNCHANGED << carregadas, usuarios, proximo_numero, arquivo, DATA_FILE, pc, sessao, abertas,
                    saques_sessao >>

\* option 6: prints the statement and the balance of the account that
\* autenticar_conta returned, changes nothing
MenuExtrato(numeros, pins) ==
    /\ pc = "rodando"
    /\ \E numero \in numeros, pin \in pins :
          ult' = Ult("extrato", "", pin, numero, 0, Fin(0),
                     autenticar_conta(contas, numero, pin), 0,
                     IF autenticar_conta(contas, numero, pin) = SemErro
                     THEN Saida(Get(contas, numero).extrato, << Get(contas, numero).saldo >>)
                     ELSE Nada)
    /\ UNCHANGED << carregadas, usuarios, contas, proximo_numero, arquivo, DATA_FILE, pc, sessao,
                    abertas, saques_sessao >>

\* option 0: saves when a data file is configured, then leaves the loop
MenuSair ==
    /\ pc = "rodando"
    /\ pc' = "encerrado"
    /\ arquivo' = IF DATA_FILE # "" THEN salvar(usuarios, contas) ELSE arquivo
    /\ ult' = Ult("sair", "", << >>, 0, 0, Fin(0), SemErro, 0, Nada)
    /\ UNCHANGED << carregadas, usuarios, contas, proximo_numero, DATA_FILE, sessao, abertas,
                    saques_sessao >>

\* the next run of the program: Banco() and, with a data file configured, carregar
Iniciar ==
    LET b == carregar(<< >>, << >>, 1, DATA_FILE, arquivo) IN
    /\ pc = "encerrado"
    /\ pc' = "rodando"
    /\ sessao' = sessao + 1
    /\ usuarios' = b.usuarios
    /\ contas' = b.contas
    /\ proximo_numero' = b.proximo_numero
    /\ carregadas' = Len(b.contas)
    /\ abertas' = 0
    /\ saques_sessao' = ZeroSaques
    /\ ult' = Ult("main", "", << >>, 0, 0, Fin(0), SemErro, 0, Nada)
    /\ UNCHANGED << arquivo, DATA_FILE >>

----------------------------------------------------------------------------
(* Specifications.  Each one runs main() with the prompts answered from a  *)
(* finite set of inputs and stops exploring where the directory outgrows   *)
(* the bounds of the model.                                                *)

\* number of statement entries in the whole directory
RECURSIVE Lancamentos(_)
Lancamentos(cs) == IF Len(cs) = 0 THEN 0 ELSE Len(Head(cs).extrato) + Lancamentos(Tail(cs))

Limitado(cs, max_contas, max_lancamentos) ==
    /\ Len(cs) <= max_contas
    /\ Lancamentos(cs) <= max_lancamentos
    /\ \A i \in 1..Len(cs) : IsFinite(cs[i].saldo) => cs[i].saldo.n <= MaxSaldo

\* a pure in-memory session: no data file is configured
InitMemoria == Init /\ DATA_FILE = ""

\* the bounds of Spec on the state a command leaves
Dentro == Limitado(contas', MaxContas, MaxLancamentos)

\* one run of the program on transfers: transfers of every kind of amount from
\* the first two accounts to every account, with either pin, on up to MaxContas
\* accounts of one customer; deposits of a finite, a nan and an infinite amount
\* fund the first two accounts
Next ==
    \/ MenuCadastrarUsuario({"111"}, {"Ana"}) /\ Dentro
    \/ MenuCriarConta({"111"}, {PIN_1234}) /\ Dentro
    \/ MenuDepositar({1, 2}, {PIN_1234}, {Fin(500), NaN, PInf}) /\ Dentro
    \/ MenuSacar({1}, {PIN_1234}, {Fin(500)}) /\ Dentro
    \/ MenuTransferir({1, 2}, PINS_CONTA, 1..MaxContas, {Fin(0), Fin(500), Fin(1500), NaN, PInf}) /\ Dentro
    \/ MenuExtrato({1}, {PIN_1234}) /\ Dentro
    \/ MenuSair /\ Dentro

Spec == InitMemoria /\ [][Next]_vars

\* the bounds of SpecSaque on the state a command leaves
DentroSaque == Limitado(contas', MaxContas, MaxLancamentos + 1)

\* one run of the program on withdrawals: withdrawals of every kind of amount
\* on the first two of up to MaxContas accounts, funded by large deposits, with
\* refused deposits and a transfer in between
NextSaque ==
    \/ MenuCadastrarUsuario({"111"}, {"Ana"}) /\ DentroSaque
    \/ MenuCriarConta({"111"}, {PIN_1234}) /\ DentroSaque
    \/ MenuDepositar({1, 2}, {PIN_1234}, {Fin(-500), Fin(0), Fin(MaxSaldo), PInf}) /\ DentroSaque
    \/ MenuSacar({1, 2}, {PIN_1234}, ENTRADAS) /\ DentroSaque
    \/ MenuTransferir({1}, {PIN_1234}, {2}, {Fin(500)}) /\ DentroSaque
    \/ MenuExtrato({1}, {PIN_1234}) /\ DentroSaque
    \/ MenuSair /\ DentroSaque

SpecSaque == InitMemoria /\ [][NextSaque]_vars

\* the bounds of SpecSessoes on the state a step leaves
DentroSessoes == Limitado(contas', MaxContas, MaxLancamentos) /\ sessao' <= MaxSessoes

\* up to MaxSessoes runs of the program, with or without a data file: each run
\* ends with option 0 and the next one starts from what carregar finds; accounts
\* are opened with every kind of cpf and pin, and the first one moves finite, nan
\* and infinite amounts
NextSessoes ==
    \/ MenuCadastrarUsuario({"111"}, {"Ana"}) /\ DentroSessoes
    \/ MenuCriarConta(CPFS, PINS_CONTA) /\ DentroSessoes
    \/ MenuDepositar({1}, {PIN_1234}, {Fin(500), NaN, PInf}) /\ DentroSessoes
    \/ MenuSacar({1}, {PIN_1234}, {Fin(500)}) /\ DentroSessoes
    \/ MenuTransferir({1}, {PIN_1234}, {2}, {Fin(500), PInf}) /\ DentroSessoes
    \/ MenuExtrato({1}, {PIN_1234}) /\ DentroSessoes
    \/ MenuSair /\ DentroSessoes
    \/ Iniciar /\ DentroSessoes

SpecSessoes == Init /\ [][NextSessoes]_vars

\* the bounds of SpecCadastro on the state a command leaves
DentroCadastro == Limitado(contas', MaxContas, MaxLancamentosCadastro)

\* one run of the program on the registry: customers and accounts of every kind
\* of cpf, name and pin, authentication with every number and pin, and one
\* movement on the ledger
NextCadastro ==
    \/ MenuCadastrarUsuario(CPFS, NOMES) /\ DentroCadastro
    \/ MenuCriarConta(CPFS, PINS) /\ DentroCadastro
    \/ MenuDepositar({1}, PINS, {Fin(500), TextoInvalido}) /\ DentroCadastro
    \/ MenuSacar({1}, {PIN_1234}, {Fin(500)}) /\ DentroCadastro
    \/ MenuTransferir({1}, {PIN_1234}, {2}, {Fin(500)}) /\ DentroCadastro
    \/ MenuExtrato(NUMEROS, PINS) /\ DentroCadastro
    \/ MenuSair /\ DentroCadastro

SpecCadastro == InitMemoria /\ [][NextCadastro]_vars

\* the bounds of SpecLimites on the state a command leaves
DentroLimites == Limitado(contas', MaxContas, MaxLancamentos + 3)

\* one run of the program on transfers after withdrawals: one large deposit,
\* small withdrawals up to the daily cap, then transfers below and above the
\* ceiling of a withdrawal between the first two accounts
NextLimites ==
    \/ MenuCadastrarUsuario({"111"}, {"Ana"}) /\ DentroLimites
    \/ MenuCriarConta({"111"}, {PIN_1234}) /\ DentroLimites
    \/ MenuDepositar({1}, {PIN_1234}, {Fin(MaxSaldo)}) /\ DentroLimites
    \/ MenuSacar({1}, {PIN_1234}, {Fin(100)}) /\ DentroLimites
    \/ MenuTransferir({1, 2}, {PIN_1234}, {1, 2}, {Fin(500), Fin(1500)}) /\ DentroLimites
    \/ MenuExtrato({1}, {PIN_1234}) /\ DentroLimites
    \/ MenuSair /\ DentroLimites

SpecLimites == InitMemoria /\ [][NextLimites]_vars

\* the bounds of SpecTerceiros on the state a command leaves
DentroTerceiros == Limitado(contas', MaxContas + 1, MaxLancamentos + 1)

\* one run of the program with an account beside the two of a transfer: deposits,
\* withdrawals and transfers, accepted and refused, on up to MaxContas + 1
\* accounts
NextTerceiros ==
    \/ MenuCadastrarUsuario({"111"}, {"Ana"}) /\ DentroTerceiros
    \/ MenuCriarConta({"111"}, {PIN_1234}) /\ DentroTerceiros
    \/ MenuDepositar(NUMEROS, {PIN_1234}, {Fin(0), Fin(500)}) /\ DentroTerceiros
    \/ MenuSacar({1, 2}, {PIN_1234}, {Fin(500), Fin(1500)}) /\ DentroTerceiros
    \/ MenuTransferir({1, 2}, {PIN_1234}, NUMEROS, {Fin(500)}) /\ DentroTerceiros
    \/ MenuExtrato({1}, {PIN_1234}) /\ DentroTerceiros
    \/ MenuSair /\ DentroTerceiros

SpecTerceiros == InitMemoria /\ [][NextTerceiros]_vars

----------------------------------------------------------------------------
(* Properties *)

Saldo(cs, numero) == Get(cs, numero).saldo
Extrato(cs, numero) == Get(cs, numero).extrato

\* number of entries of kind tipo in a statement
RECURSIVE Quantos(_, _)
Quantos(extrato, tipo) ==
    IF Len(extrato) = 0 THEN 0
    ELSE (IF Head(extrato).tipo = tipo THEN 1 ELSE 0) + Quantos(Tail(extrato), tipo)

\* the entries a step appended to the statement of account numero
Novos(numero) ==
    SubSeq(Extrato(contas', numero), Len(Extrato(contas, numero)) + 1,
           Len(Extrato(contas', numero)))

\* the statement of account numero kept its old entries, in place
SoAcrescentou(numero) ==
    /\ Len(Extrato(contas', numero)) >= Len(Extrato(contas, numero))
    /\ SubSeq(Extrato(contas', numero), 1, Len(Extrato(contas, numero))) = Extrato(contas, numero)

\* C1: in every reachable state every account's balance is >= 0.
C1_SaldoNaoNegativo ==
    \A i \in 1..Len(contas) : FGe(contas[i].saldo, Fin(0))

\* the step is a transfer command whose source authenticated and whose
\* destination exists, of an amount with 0 < amount <= balance(source)
TransferenciaAceita ==
    /\ ult'.op = "transferir"
    /\ ult'.erro \notin {ERRO_CONTA_PIN, ERRO_DESTINO, ERRO_FLOAT}
    /\ FLt(Fin(0), ult'.valor)
    /\ FLe(ult'.valor, Saldo(contas, ult'.numero))

\* what the step appended: one TRANSFERENCIA-ENVIO of -amount to the source and
\* one TRANSFERENCIA-RECEB of +amount to the destination, the first before the second
LancamentosDaTransferencia ==
    LET a == ult'.numero
        b == ult'.destino
        v == ult'.valor
    IN /\ SoAcrescentou(a)
       /\ SoAcrescentou(b)
       /\ Quantos(Novos(a), "TRANSFERENCIA-ENVIO") = 1
       /\ Quantos(Novos(b), "TRANSFERENCIA-RECEB") = 1
       /\ IF a = b
          THEN Novos(a) = << Transacao("TRANSFERENCIA-ENVIO", FNeg(v)),
                             Transacao("TRANSFERENCIA-RECEB", v) >>
          ELSE /\ Novos(a) = << Transacao("TRANSFERENCIA-ENVIO", FNeg(v)) >>
               /\ Novos(b) = << Transacao("TRANSFERENCIA-RECEB", v) >>

RECURSIVE QuantosNoBanco(_, _)
QuantosNoBanco(cs, tipo) ==
    IF Len(cs) = 0 THEN 0
    ELSE Quantos(Head(cs).extrato, tipo) + QuantosNoBanco(Tail(cs), tipo)

\* C3: a transfer command that fails leaves every account (balance, statement,
\* withdrawal counter) as it was, and no state holds a debit of a transfer
\* without its credit.
C3_TransferenciaFalha ==
    [][/\ (ult'.op = "transferir" /\ ult'.erro # SemErro) => contas' = contas
       /\ QuantosNoBanco(contas', "TRANSFERENCIA-ENVIO")
            = QuantosNoBanco(contas', "TRANSFERENCIA-RECEB")
      ]_vars

\* a transfer of more than the balance has failed on an account that holds money
C3_Witness ==
    /\ ult.op = "transferir"
    /\ ult.erro = ERRO_TRANSF_SALDO
    /\ ult.numero # ult.destino
    /\ Saldo(contas, ult.numero) = Fin(500)
    /\ ult.valor = Fin(1500)

\* the step is a withdraw command that reached Conta.sacar
SaqueChamado ==
    /\ ult'.op = "sacar"
    /\ ult'.erro \notin {ERRO_CONTA_PIN, ERRO_FLOAT}

\* C4: withdraw reports the first violated constraint in the order amount <= 0,
\* amount > 1000.00, withdrawalsToday >= 3, amount > balance, and succeeds when
\* none is violated; any amount > 1000.00 yields the per-operation error.
C4_OrdemDosErros ==
    [][SaqueChamado =>
         LET c == Get(contas, ult'.numero)
             v == ult'.valor
             invalido == FLe(v, Fin(0))
             acima == FGt(v, Fin(1000))
             limite == c.saques_hoje >= 3
             semfundos == FGt(v, c.saldo)
         IN /\ invalido => ult'.erro = ERRO_SAQUE_POSITIVO
            /\ acima => ult'.erro = ERRO_SAQUE_MAXIMO
            /\ (~invalido /\ ~acima /\ limite) => ult'.erro = ERRO_LIMITE_SAQUES
            /\ (~invalido /\ ~acima /\ ~limite /\ semfundos) => ult'.erro = ERRO_SALDO_INSUFICIENTE
            /\ (~invalido /\ ~acima /\ ~limite /\ ~semfundos) => ult'.erro = SemErro
      ]_vars

\* a withdrawal above the ceiling, on an account at the daily cap that holds
\* less than the amount, was refused for the ceiling
C4_Witness ==
    /\ ult.op = "sacar"
    /\ ult.erro = ERRO_SAQUE_MAXIMO
    /\ Get(contas, ult.numero).saques_hoje = 3
    /\ IsFinite(Saldo(contas, ult.numero))
    /\ FGt(ult.valor, Saldo(contas, ult.numero))

\* C5: in a run that starts from the empty directory, once an account has had 3
\* successful withdrawals every later withdraw on it with 0 < amount <= 1000.00
\* fails with the daily-limit error, whatever its balance; and the daily-limit
\* error is reported only for an account that has itself had 3.
C5_QuartoSaque ==
    [][(SaqueChamado /\ FLt(Fin(0), ult'.valor) /\ FLe(ult'.valor, Fin(1000))) =>
         /\ saques_sessao[ult'.numero] >= 3 => ult'.erro = ERRO_LIMITE_SAQUES
         /\ ult'.erro = ERRO_LIMITE_SAQUES => saques_sessao[ult'.numero] >= 3
      ]_vars

\* a fourth withdrawal that the balance covers was refused, on an account other
\* than one that has not withdrawn at all
C5_Witness ==
    /\ ult.op = "sacar"
    /\ ult.erro = ERRO_LIMITE_SAQUES
    /\ saques_sessao[ult.numero] = 3
    /\ FLt(Fin(0), ult.valor)
    /\ IsFinite(Saldo(contas, ult.numero))
    /\ FLe(ult.valor, Saldo(contas, ult.numero))
    /\ \E n \in Numeros(contas) : n # ult.numero /\ saques_sessao[n] = 0

\* C6: every account has 0 <= withdrawalsToday <= 3; a successful withdraw raises
\* the counter of its account by 1, lowers the balance by the amount and appends
\* one SAQUE entry of -amount; nothing else changes a counter.
C6_ContadorDeSaques ==
    [][/\ \A i \in 1..Len(contas') :
             contas'[i].saques_hoje >= 0 /\ contas'[i].saques_hoje <= 3
       /\ \A n \in Numeros(contas) \cap Numeros(contas') :
             IF ult'.op = "sacar" /\ ult'.numero = n /\ ult'.erro = SemErro
             THEN /\ Get(contas', n).saques_hoje = Get(contas, n).saques_hoje + 1
                  /\ Saldo(contas', n) = FSub(Saldo(contas, n), ult'.valor)
                  /\ Extrato(contas', n)
                       = Append(Extrato(contas, n), Transacao("SAQUE", FNeg(ult'.valor)))
             ELSE Get(contas', n).saques_hoje = Get(contas, n).saques_hoje
      ]_vars

\* the third withdrawal of an account has succeeded
C6_Witness ==
    /\ ult.op = "sacar"
    /\ ult.erro = SemErro
    /\ IsFinite(ult.valor)
    /\ Get(contas, ult.numero).saques_hoje = 3

\* C7: after a restart every account's withdrawal counter is 0.
C7_ContadorZeradoNoReinicio ==
    (ult.op = "main" /\ sessao > 1) => \A i \in 1..Len(contas) : contas[i].saques_hoje = 0

\* the directory that a fresh Banco holds after loading what salvar writes of
\* the current one
IdaEVolta == carregar(<< >>, << >>, 1, "bank_data.json", salvar(usuarios, contas))

AberturaDeConta == ult'.op = "criar_conta"

\* C9 as claimed: the Nth successful openAccount of a session returns
\* 1 + (successful openAccount calls before it in that session), a number higher
\* than every number in use; a failed one consumes no number.
C9_NumeracaoOriginal ==
    [][AberturaDeConta =>
         IF ult'.erro = SemErro
         THEN /\ ult'.ret = 1 + abertas
              /\ \A n \in Numeros(contas) : ult'.ret > n
         ELSE proximo_numero' = proximo_numero /\ contas' = contas
      ]_vars

\* C9 as amended: a successful openAccount returns 1 + (accounts the session
\* loaded at startup) + (successful openAccount calls before it in that
\* session), a number higher than every number in use; a failed one consumes
\* no number.
C9_Numeracao ==
    [][AberturaDeConta =>
         IF ult'.erro = SemErro
         THEN /\ ult'.ret = 1 + carregadas + abertas
              /\ \A n \in Numeros(contas) : ult'.ret > n
              /\ Numeros(contas') = Numeros(contas) \cup {ult'.ret}
         ELSE proximo_numero' = proximo_numero /\ contas' = contas
      ]_vars

\* an account was opened in a run that had loaded one
C9_Witness ==
    /\ ult.op = "criar_conta"
    /\ ult.erro = SemErro
    /\ carregadas = 1
    /\ abertas = 1
    /\ ult.ret = 2

\* C10: every account's owner is a registered customer and every account's pin
\* is exactly 4 ASCII decimal digits.
C10_TitularEPin ==
    \A i \in 1..Len(contas) :
        /\ contas[i].cpf_titular \in Cpfs(usuarios)
        /\ Len(contas[i].pin) = 4
        /\ \A k \in 1..Len(contas[i].pin) : contas[i].pin[k] \in DigitosAscii

----------------------------------------------------------------------------
(* Authentication and the registry *)

\* the directory cs without the account stored under numero
SemConta(cs, numero) == SelectSeq(cs, LAMBDA c : c.numero # numero)

\* the step is a command that asks for an account number and a pin
ComandoDeConta == ult'.op \in {"depositar", "sacar", "transferir", "extrato"}

\* the number and the pin the command was given are those of an account
PinCerto == ult'.numero \in Numeros(contas) /\ Get(contas, ult'.numero).pin = ult'.pin

\* what the program keeps: the directory and the snapshot file
Diretorio == << usuarios, contas, proximo_numero, arquivo >>

\* C11: autenticar_conta raises one and the same message for an existing number
\* with another pin and for a number that no account has, so the directory with
\* and the directory without the account answer alike to every pin that is not
\* the account's; a command whose authentication fails reports that message and
\* leaves the directory and the file as they were.
C11_FalhaDeAutenticacao ==
    [][/\ \A n \in Numeros(contas), pin \in PINS :
             Get(contas, n).pin # pin =>
                /\ autenticar_conta(contas, n, pin) = ERRO_CONTA_PIN
                /\ autenticar_conta(SemConta(contas, n), n, pin)
                     = autenticar_conta(contas, n, pin)
       /\ (ComandoDeConta /\ ~PinCerto) =>
             /\ ult'.erro = ERRO_CONTA_PIN
             /\ UNCHANGED Diretorio
      ]_vars

\* a command was refused for a wrong pin on an account that exists, in a
\* directory where another number is free
C11_Witness ==
    /\ ult.op \in {"depositar", "extrato"}
    /\ ult.erro = ERRO_CONTA_PIN
    /\ ult.numero \in Numeros(contas)
    /\ Get(contas, ult.numero).pin # ult.pin
    /\ \E n \in NUMEROS : n \notin Numeros(contas)

\* C12: criar_usuario with a cpf the directory already has raises "CPF ja
\* cadastrado." and leaves the directory and the file as they were; no step
\* leaves two records with one cpf, and every record a step finds is still
\* there, in its place and with the same name, birth date and address.
C12_CpfDuplicado ==
    [][/\ (ult'.op = "criar_usuario" /\ ult'.cpf \in Cpfs(usuarios)) =>
             /\ ult'.erro = ERRO_CPF_CADASTRADO
             /\ UNCHANGED Diretorio
       /\ \A i, j \in 1..Len(usuarios') :
             usuarios'[i].cpf = usuarios'[j].cpf => i = j
       /\ Len(usuarios') >= Len(usuarios)
       /\ \A i \in 1..Len(usuarios) : usuarios'[i] = usuarios[i]
      ]_vars

\* a registration was refused for a cpf that is registered, beside another
\* customer
C12_Witness ==
    /\ ult.op = "criar_usuario"
    /\ ult.erro = ERRO_CPF_CADASTRADO
    /\ ult.cpf \in Cpfs(usuarios)
    /\ Len(usuarios) = 2

----------------------------------------------------------------------------
(* Failures and the frame of the ledger operations *)

\* the four messages of Conta.sacar
ERROS_DE_SAQUE == {ERRO_SAQUE_POSITIVO, ERRO_SAQUE_MAXIMO, ERRO_LIMITE_SAQUES,
                   ERRO_SALDO_INSUFICIENTE}

\* the step is a deposit command that reached Conta.depositar
DepositoChamado ==
    /\ ult'.op = "depositar"
    /\ ult'.erro \notin {ERRO_CONTA_PIN, ERRO_FLOAT}

\* C13: a deposit of an amount <= 0 is refused, and it and a withdraw refused for
\* any of its four reasons leave every account (balance, statement, withdrawal
\* counter) and the rest of the directory as they were; the menu loop goes on.
C13_FalhaNaoAltera ==
    [][/\ (DepositoChamado /\ FLe(ult'.valor, Fin(0))) =>
             /\ ult'.erro = ERRO_DEPOSITO_POSITIVO
             /\ UNCHANGED Diretorio
             /\ pc' = "rodando"
       /\ (ult'.op = "sacar" /\ ult'.erro \in ERROS_DE_SAQUE) =>
             /\ UNCHANGED Diretorio
             /\ pc' = "rodando"
      ]_vars

\* a deposit of a negative amount was refused on an account that has moved
\* money and withdrawn
C13_Witness ==
    /\ ult.op = "depositar"
    /\ ult.erro = ERRO_DEPOSITO_POSITIVO
    /\ FLt(ult.valor, Fin(0))
    /\ Get(contas, ult.numero).saques_hoje > 0
    /\ pc = "rodando"

\* C14: a transfer of an amount with 0 < amount <= balance(source) succeeds
\* whether or not the amount is above 1000.00 and whether or not the source has
\* already withdrawn 3 times, and a transfer that succeeds leaves the withdrawal
\* counter of every account as it was.
C14_TransferenciaSemLimites ==
    [][/\ TransferenciaAceita => ult'.erro = SemErro
       /\ (ult'.op = "transferir" /\ ult'.erro = SemErro) =>
             /\ Numeros(contas') = Numeros(contas)
             /\ \A n \in Numeros(contas) :
                   Get(contas', n).saques_hoje = Get(contas, n).saques_hoje
      ]_vars

\* a transfer of more than 1000.00 between two accounts has succeeded from an
\* account that had withdrawn 3 times
C14_Witness ==
    /\ ult.op = "transferir"
    /\ ult.erro = SemErro
    /\ ult.numero # ult.destino
    /\ FGt(ult.valor, LIMITE_SAQUE)
    /\ Get(contas, ult.numero).saques_hoje = LIMITE_SAQUES_DIA

\* C15: a deposit, withdraw, transfer or statement command changes an account,
\* or prints a balance or a statement entry, only when the number and the pin it
\* was given are those of an account; otherwise it ends with the message of
\* autenticar_conta, every account as it was and nothing of them printed.
C15_AutenticaAntes ==
    [][ComandoDeConta =>
         /\ (contas' # contas \/ ult'.saida # Nada) => PinCerto
         /\ ~PinCerto => /\ ult'.erro = ERRO_CONTA_PIN
                         /\ contas' = contas
                         /\ ult'.saida = Nada
         /\ (PinCerto /\ ult'.op = "extrato") =>
               ult'.saida = Saida(Extrato(contas, ult'.numero), << Saldo(contas, ult'.numero) >>)
      ]_vars

\* a deposit was refused for its pin on an account that holds money
C15_Witness ==
    /\ ult.op = "depositar"
    /\ ult.erro = ERRO_CONTA_PIN
    /\ ult.numero \in Numeros(contas)
    /\ Get(contas, ult.numero).pin # ult.pin
    /\ Len(Get(contas, ult.numero).extrato) > 0

----------------------------------------------------------------------------
(* Statements *)

\* every account a step finds is still there and its statement kept its old
\* entries, in place
ExtratosSoCrescem ==
    \A n \in Numeros(contas) : n \in Numeros(contas') /\ SoAcrescentou(n)

\* the entry has the sign of its kind
SinalDoTipo(t) ==
    IF t.tipo \in {"DEPOSITO", "TRANSFERENCIA-RECEB"} THEN FGt(t.valor, Fin(0))
    ELSE FLt(t.valor, Fin(0))

\* C16: every step leaves each statement as it was with zero or more entries
\* appended, and every entry of every statement has the sign of its kind:
\* DEPOSITO and TRANSFERENCIA-RECEB above 0, SAQUE and TRANSFERENCIA-ENVIO below.
C16_ExtratoSoCresce ==
    [][/\ ExtratosSoCrescem
       /\ \A i \in 1..Len(contas') : \A k \in 1..Len(contas'[i].extrato) :
             SinalDoTipo(contas'[i].extrato[k])
      ]_vars

----------------------------------------------------------------------------
(* The snapshot *)

\* the directory as a record
Banco(us, cs, prox) == [usuarios |-> us, contas |-> cs, proximo_numero |-> prox]

\* C17: carregar on the current directory, whatever it holds, with no path or
\* with no file at the path returns the directory as it is; with the file there
\* it returns the customers and the accounts of the file and nothing else, the
\* next number being 1 + the largest number loaded (1 when no account is), and
\* criar_conta on what it returns gives a number no loaded account has and
\* keeps every loaded account.
C17_Carregar ==
    \A path \in ARQUIVOS :
        LET b == carregar(usuarios, contas, proximo_numero, path, arquivo) IN
        IF path = "" \/ ~arquivo.existe
        THEN b = Banco(usuarios, contas, proximo_numero)
        ELSE /\ b.usuarios = arquivo.usuarios
             /\ Len(b.contas) = Len(arquivo.contas)
             /\ \A i \in 1..Len(b.contas) : b.contas[i] = conta_json(arquivo.contas[i])
             /\ \A n \in Numeros(b.contas) : b.proximo_numero > n
             /\ b.proximo_numero = 1 \/ b.proximo_numero - 1 \in Numeros(b.contas)
             /\ \A cpf \in Cpfs(b.usuarios) :
                   LET r == criar_conta(b.usuarios, b.contas, b.proximo_numero, cpf, PIN_1234)
                   IN /\ r.erro = SemErro
                      /\ r.numero \notin Numeros(b.contas)
                      /\ r.contas = Append(b.contas, Conta(r.numero, cpf, PIN_1234))

\* the file holds an account and the running directory, which was loaded from
\* it, holds one more
C17_Witness ==
    /\ DATA_FILE # ""
    /\ arquivo.existe
    /\ sessao > 1
    /\ Len(arquivo.contas) = 1
    /\ Len(contas) = 2
    /\ pc = "rodando"

----------------------------------------------------------------------------
(* Frame *)

\* the step is a deposit, withdraw or transfer command
Movimentacao == ult'.op \in {"depositar", "sacar", "transferir"}

\* the accounts the command names: the one it authenticates and, for a
\* transfer, the destination
Nomeadas == {ult'.numero} \cup (IF ult'.op = "transferir" THEN {ult'.destino} ELSE {})

\* C18: a deposit, withdraw or transfer command, accepted or refused, leaves
\* the customers, the next account number and every account it does not name
\* as they were, and changes the number, branch, owner or pin of no account.
C18_Moldura ==
    [][Movimentacao =>
         /\ usuarios' = usuarios
         /\ proximo_numero' = proximo_numero
         /\ Len(contas') = Len(contas)
         /\ \A i \in 1..Len(contas) :
               /\ contas'[i].numero = contas[i].numero
               /\ contas'[i].agencia = contas[i].agencia
               /\ contas'[i].cpf_titular = contas[i].cpf_titular
               /\ contas'[i].pin = contas[i].pin
               /\ contas[i].numero \notin Nomeadas => contas'[i] = contas[i]
      ]_vars

\* a transfer between two accounts has succeeded beside a third that holds
\* money
C18_Witness ==
    /\ ult.op = "transferir"
    /\ ult.erro = SemErro
    /\ ult.numero # ult.destino
    /\ \E n \in Numeros(contas) :
          /\ n \notin {ult.numero, ult.destino}
          /\ Len(Extrato(contas, n)) > 0

----------------------------------------------------------------------------
(* The ledger *)

\* the float sum of the amounts of a statement, added in order from 0.0
RECURSIVE SomaAte(_, _)
SomaAte(extrato, k) ==
    IF k = 0 THEN Fin(0) ELSE FAdd(SomaAte(extrato, k - 1), extrato[k].valor)

Soma(extrato) == SomaAte(extrato, Len(extrato))

====
